---- MODULE Spec2Model ----
(***************************************************************************)
(* Model of mlx_tts_server.py: the lazily loaded pipeline cache            *)
(* (get_pipeline), the POST /dev/captioned_speech handler and the word     *)
(* timestamp estimator (_estimate_word_timestamps).                        *)
(*                                                                         *)
(* Python floats are IEEE-754 binary64.  They are modelled exactly: a      *)
(* float is a record [m, e] standing for m * 2^e, where m is a natural     *)
(* number of at most Prec bits kept as a little-endian sequence of 15-bit  *)
(* limbs (TLC integers are 32 bits wide).  Every float operation computes  *)
(* the exact result and rounds it once, to nearest, ties to even.          *)
(* round(x, 3) is modelled by the integer k such that the value Python     *)
(* returns is the float nearest to k/1000 (times are in milliseconds).     *)
(***************************************************************************)
EXTENDS Integers, Sequences, FiniteSets, TLC

\* ------------------------------------------------------------------------
\* Bounds of the model
\* ------------------------------------------------------------------------
MaxLen      == 5     \* longest enumerated input text, in characters
MaxCalls    == 14    \* successive get_pipeline() calls in one behaviour
MaxRequests == 1     \* captioned_speech requests in one behaviour
MaxSegs     == 2     \* segments one generation yields
MaxSamples  == 1     \* samples in one generated buffer
NumCallers  == 2     \* callers racing on the empty cache

\* ------------------------------------------------------------------------
\* Natural numbers wider than 32 bits: little-endian limbs in 0..B-1
\* ------------------------------------------------------------------------
B == 2^15

Min(x, y) == IF x <= y THEN x ELSE y

RECURSIVE Norm(_)
Norm(a) ==
    IF a = <<>> THEN <<>>
    ELSE IF a[Len(a)] = 0 THEN Norm(SubSeq(a, 1, Len(a) - 1))
    ELSE a

FromInt(n) == Norm(<<n % B, (n \div B) % B, n \div (B * B)>>)

ToInt(a) ==
    IF a = <<>> THEN 0
    ELSE IF Len(a) = 1 THEN a[1]
    ELSE IF Len(a) = 2 THEN a[1] + B * a[2]
    ELSE a[1] + B * a[2] + B * B * a[3]

RECURSIVE BAddC(_, _, _)
BAddC(a, b, c) ==
    IF a = <<>> /\ b = <<>> THEN (IF c = 0 THEN <<>> ELSE <<c>>)
    ELSE LET x == IF a = <<>> THEN 0 ELSE Head(a)
             y == IF b = <<>> THEN 0 ELSE Head(b)
             s == x + y + c
         IN  <<s % B>> \o BAddC(IF a = <<>> THEN <<>> ELSE Tail(a),
                                IF b = <<>> THEN <<>> ELSE Tail(b),
                                s \div B)

BAdd(a, b) == Norm(BAddC(a, b, 0))

RECURSIVE BMulSmallC(_, _, _)
BMulSmallC(a, k, c) ==
    IF a = <<>> THEN (IF c = 0 THEN <<>> ELSE <<c>>)
    ELSE LET s == Head(a) * k + c
         IN  <<s % B>> \o BMulSmallC(Tail(a), k, s \div B)

BMulSmall(a, k) == Norm(BMulSmallC(a, k, 0))

RECURSIVE BMul(_, _)
BMul(a, b) ==
    IF b = <<>> THEN <<>>
    ELSE LET rest == BMul(a, Tail(b))
         IN  BAdd(BMulSmall(a, Head(b)),
                  IF rest = <<>> THEN <<>> ELSE <<0>> \o rest)

\* quotient and remainder of a by a divisor k in 1..2^16-1
RECURSIVE BDivSmall(_, _)
BDivSmall(a, k) ==
    IF a = <<>> THEN [q |-> <<>>, r |-> 0]
    ELSE LET hi  == BDivSmall(Tail(a), k)
             cur == hi.r * B + Head(a)
         IN  [q |-> <<cur \div k>> \o hi.q, r |-> cur % k]

RECURSIVE IntBits(_)
IntBits(n) == IF n = 0 THEN 0 ELSE 1 + IntBits(n \div 2)

BBitLen(a) == IF a = <<>> THEN 0 ELSE 15 * (Len(a) - 1) + IntBits(a[Len(a)])

ShiftLeft(a, s) ==
    IF a = <<>> THEN <<>>
    ELSE [i \in 1..(s \div 15) |-> 0] \o BMulSmall(a, 2^(s % 15))

\* floor(a / 2^s), and whether any nonzero bit was shifted out
FloorShift(a, s) ==
    LET n == s \div 15
    IN  IF n >= Len(a) THEN [q |-> <<>>, sticky |-> a # <<>>]
        ELSE LET d == BDivSmall(SubSeq(a, n + 1, Len(a)), 2^(s % 15))
             IN  [q |-> Norm(d.q),
                  sticky |-> d.r # 0 \/ \E i \in 1..n : a[i] # 0]

\* a / 2^s (s >= 1) rounded to the nearest integer, ties to even
RoundShift(a, s) ==
    LET f   == FloorShift(a, s - 1)
        h   == BDivSmall(f.q, 2)
        q0  == Norm(h.q)
        odd == q0 # <<>> /\ q0[1] % 2 = 1
    IN  IF h.r = 1 /\ (f.sticky \/ odd) THEN BAdd(q0, <<1>>) ELSE q0

\* ------------------------------------------------------------------------
\* Python float (binary64) arithmetic
\* ------------------------------------------------------------------------
Prec == 53

FZero == [m |-> <<>>, e |-> 0]

\* the float nearest to M * 2^e
FRound(M, e) ==
    LET bl == BBitLen(M)
    IN  IF bl <= Prec THEN [m |-> M, e |-> e]
        ELSE [m |-> RoundShift(M, bl - Prec), e |-> e + (bl - Prec)]

\* int / int true division: a >= 0, b in 1..2^16-1
FDivInt(a, b) ==
    IF a = 0 THEN FZero
    ELSE LET d == BDivSmall(ShiftLeft(FromInt(a), 75), b)
             M == BAdd(BMulSmall(Norm(d.q), 2),
                       IF d.r # 0 THEN <<1>> ELSE <<>>)
         IN  FRound(M, -76)

FMul(x, y) == FRound(BMul(x.m, y.m), x.e + y.e)

FAdd(x, y) ==
    IF x.m = <<>> THEN y
    ELSE IF y.m = <<>> THEN x
    ELSE LET e == Min(x.e, y.e)
         IN  FRound(BAdd(ShiftLeft(x.m, x.e - e), ShiftLeft(y.m, y.e - e)), e)

\* round(x, 3), in thousandths
Round3(x) ==
    IF x.m = <<>> THEN 0
    ELSE LET M == BMulSmall(x.m, 1000)
         IN  ToInt(IF x.e >= 0 THEN ShiftLeft(M, x.e) ELSE RoundShift(M, -x.e))

\* ------------------------------------------------------------------------
\* _estimate_word_timestamps
\* ------------------------------------------------------------------------
Whitespace == {" ", "\t"}
Letters    == {"a", "b"}
Chars      == Letters \cup Whitespace

\* str.split(): the maximal runs of non-whitespace characters, in order
RECURSIVE SplitFrom(_, _, _)
SplitFrom(text, cur, acc) ==
    IF text = <<>> THEN (IF cur = <<>> THEN acc ELSE Append(acc, cur))
    ELSE IF Head(text) \in Whitespace
         THEN SplitFrom(Tail(text), <<>>,
                        IF cur = <<>> THEN acc ELSE Append(acc, cur))
         ELSE SplitFrom(Tail(text), Append(cur, Head(text)), acc)

\* text.split(" "): cut at every single space, keeping empty pieces
RECURSIVE SplitOnSpace(_, _, _)
SplitOnSpace(text, cur, acc) ==
    IF text = <<>> THEN Append(acc, cur)
    ELSE IF Head(text) = " "
         THEN SplitOnSpace(Tail(text), <<>>, Append(acc, cur))
         ELSE SplitOnSpace(Tail(text), Append(cur, Head(text)), acc)

Split_SingleSpace(text) == SplitOnSpace(text, <<>>, <<>>)

Split(text) == SplitFrom(text, <<>>, <<>>)

RECURSIVE SumLen(_)
SumLen(words) == IF words = <<>> THEN 0 ELSE Len(Head(words)) + SumLen(Tail(words))

\* EstLoop with start_time and end_time computed from each other's value
RECURSIVE EstLoop_Swapped(_, _, _, _, _)
EstLoop_Swapped(words, total_chars, total_duration, current_time, timestamps) ==
    IF words = <<>> THEN timestamps
    ELSE LET word          == Head(words)
             word_duration == FMul(FDivInt(Len(word), total_chars), total_duration)
             entry == [word       |-> word,
                       start_time |-> Round3(FAdd(current_time, word_duration)),
                       end_time   |-> Round3(current_time)]
         IN  EstLoop_Swapped(Tail(words), total_chars, total_duration,
                             FAdd(current_time, word_duration),
                             Append(timestamps, entry))

\* EstLoop without line 156 (current_time += word_duration)
RECURSIVE EstLoop_NoAccumulate(_, _, _, _, _)
EstLoop_NoAccumulate(words, total_chars, total_duration, current_time, timestamps) ==
    IF words = <<>> THEN timestamps
    ELSE LET word          == Head(words)
             word_duration == FMul(FDivInt(Len(word), total_chars), total_duration)
             entry == [word       |-> word,
                       start_time |-> Round3(current_time),
                       end_time   |-> Round3(FAdd(current_time, word_duration))]
         IN  EstLoop_NoAccumulate(Tail(words), total_chars, total_duration,
                                  current_time,
                                  Append(timestamps, entry))

\* the for loop of lines 147-156
RECURSIVE EstLoop(_, _, _, _, _)
EstLoop(words, total_chars, total_duration, current_time, timestamps) ==
    IF words = <<>> THEN timestamps
    ELSE LET word          == Head(words)
             word_duration == FMul(FDivInt(Len(word), total_chars), total_duration)
             entry == [word       |-> word,
                       start_time |-> Round3(current_time),
                       end_time   |-> Round3(FAdd(current_time, word_duration))]
         IN  EstLoop(Tail(words), total_chars, total_duration,
                     FAdd(current_time, word_duration),
                     Append(timestamps, entry))

\* total_chars taken from the whole text, whitespace included
EstimateWordTimestamps_TextLen(text, total_duration) ==
    LET words       == Split(text)
        total_chars == Len(text)
    IN  IF words = <<>> THEN <<>>
        ELSE IF total_chars = 0 THEN <<>>
        ELSE EstLoop(words, total_chars, total_duration, FZero, <<>>)

EstimateWordTimestamps(text, total_duration) ==
    LET words       == Split(text)
        total_chars == SumLen(words)
    IN  IF words = <<>> THEN <<>>
        ELSE IF total_chars = 0 THEN <<>>
        ELSE EstLoop(words, total_chars, total_duration, FZero, <<>>)


\* ------------------------------------------------------------------------
\* State
\* ------------------------------------------------------------------------
VARIABLES
    _pipeline,            \* module global, line 24: None or the loaded model
    _tokenizer,           \* module global, line 25
    loadLog,              \* one entry per load_model call: did it succeed
    rets,                 \* one entry per finished get_pipeline() call
    str_variant,          \* which str(HTTPException) the installed framework has
    response,             \* the last HTTP response sent
    raised,               \* the exception raised inside the handler's try
    lastInput,            \* req.input of the last captioned_speech request
    lastGen,              \* what generate_audio produced for it
    handled,              \* captioned_speech requests handled so far
    pc, tmp, ret,         \* racing get_pipeline() callers
    est_text,             \* arguments and result of a direct call of
    est_total_duration,   \*   _estimate_word_timestamps
    est_result,
    est_done

cacheVars  == <<_pipeline, _tokenizer, loadLog>>
loaderVars == <<rets>>
serverVars == <<str_variant, response, raised, lastInput, lastGen, handled>>
raceVars   == <<pc, tmp, ret>>
estVars    == <<est_text, est_total_duration, est_result, est_done>>
vars       == <<cacheVars, loaderVars, serverVars, raceVars, estVars>>

None == 0
Callers == 1..NumCallers

\* load_model returns a new object on every call; objects are named by the
\* number of the load that created them
NewHandle == Len(loadLog) + 1

\* ------------------------------------------------------------------------
\* get_pipeline, lines 28-36, run without interruption.  A call that
\* raises (load_model failed) returns nothing: it is logged as None.
\* ------------------------------------------------------------------------
\* get_pipeline without the test of line 30: every call loads
GetPipeline_NoCache ==
    /\ Len(rets) < MaxCalls
    /\ \E ok \in BOOLEAN :
         /\ loadLog' = Append(loadLog, ok)
         /\ IF ok
            THEN /\ _pipeline' = NewHandle
                 /\ _tokenizer' = None
                 /\ rets' = Append(rets, _pipeline')
            ELSE /\ UNCHANGED <<_pipeline, _tokenizer>>
                 /\ rets' = Append(rets, None)
    /\ UNCHANGED <<serverVars, raceVars, estVars>>

GetPipeline ==
    /\ Len(rets) < MaxCalls
    /\ IF _pipeline = None
       THEN \E ok \in BOOLEAN :
              /\ loadLog' = Append(loadLog, ok)
              /\ IF ok
                 THEN /\ _pipeline' = NewHandle
                      /\ _tokenizer' = None
                      /\ rets' = Append(rets, _pipeline')
                 ELSE /\ UNCHANGED <<_pipeline, _tokenizer>>
                      /\ rets' = Append(rets, None)
       ELSE /\ rets' = Append(rets, _pipeline)
            /\ UNCHANGED cacheVars
    /\ UNCHANGED <<serverVars, raceVars, estVars>>

\* ------------------------------------------------------------------------
\* POST /dev/captioned_speech, lines 58-127
\* ------------------------------------------------------------------------
DefaultRate == 24000
Rates == {24000, 48000}

RECURSIVE SeqsUpTo(_, _)
SeqsUpTo(S, n) ==
    IF n = 0 THEN {<<>>}
    ELSE LET shorter == SeqsUpTo(S, n - 1)
         IN  shorter \cup {Append(q, x) : q \in {r \in shorter : Len(r) = n - 1}, x \in S}

RECURSIVE Sum(_)
Sum(q) == IF q = <<>> THEN 0 ELSE Head(q) + Sum(Tail(q))

\* a sample buffer of n samples; the samples of one generation are numbered
\* in the order the model produces them, so that every sample is distinct
Buffer(first, n) == [j \in 1..n |-> first + j - 1]

\* the items a generator yields: (array, rate) tuples when rate is a sample
\* rate, bare arrays when rate is None
SegmentsOf(lens, rate) ==
    [i \in 1..Len(lens) |->
        [is_tuple |-> rate # None,
         array    |-> Buffer(Sum(SubSeq(lens, 1, i - 1)) + 1, lens[i]),
         rate     |-> rate]]

\* what the call of generate_audio can do
GenResults ==
    {[kind |-> "raise", msg |-> "generation failed"]}
    \cup {[kind |-> "generator", segs |-> SegmentsOf(lens, rate)] :
             lens \in SeqsUpTo(0..MaxSamples, MaxSegs), rate \in Rates \cup {None}}
    \cup {[kind |-> "tuple", array |-> Buffer(1, n), rate |-> r] :
             n \in 0..MaxSamples, r \in Rates}
    \cup {[kind |-> "ndarray", array |-> Buffer(1, n)] : n \in 0..MaxSamples}
    \cup {[kind |-> "none"]}

HTTPException(status_code, detail) ==
    [type |-> "HTTPException", status_code |-> status_code, detail |-> detail]
Exception(msg) == [type |-> "Exception", msg |-> msg]
NoException == [type |-> "none"]

\* str(e).  HTTPException is constructed with keyword arguments only, so its
\* args are empty: a Starlette that defines HTTPException.__str__ gives
\* "<status>: <detail>", one that does not gives "".
StrVariants == {"with __str__", "without __str__"}
Str(e, variant) ==
    IF e.type = "HTTPException"
    THEN (IF variant = "with __str__"
          THEN ToString(e.status_code) \o ": " \o e.detail
          ELSE "")
    ELSE e.msg

\* sf.write(..., format="WAV") followed by base64.b64encode
EncodeWav(audio_array, sample_rate) ==
    [container |-> "WAV", samplerate |-> sample_rate, frames |-> audio_array]
B64Encode(bytes) == [b64 |-> bytes]

Return(v) == [kind |-> "return", value |-> v]
Raise(e)  == [kind |-> "raise", exc |-> e]

ReqTexts == {<<>>, <<"a", " ", "b", "b">>}

\* _estimate_word_timestamps(req.input, len(audio_array) / sample_rate),
\* lines 115-117, tabulated over the requests and buffers of the model
HandlerTimestamps ==
    [input \in ReqTexts, n \in 0..MaxSamples, sample_rate \in Rates |->
        EstimateWordTimestamps(input, FDivInt(n, sample_rate))]

\* lines 95-124: encode, estimate, build the JSON body
EncodeAndEstimate(input, audio_array, sample_rate, encode_ok) ==
    IF ~encode_ok
    THEN Raise(Exception("error writing audio"))
    ELSE Return([audio      |-> B64Encode(EncodeWav(audio_array, sample_rate)),
                 timestamps |-> HandlerTimestamps[
                                    input, Len(audio_array), sample_rate]])

\* lines 61-124: the body of the try block
TryBody(input, gen, encode_ok) ==
    IF gen.kind = "raise" THEN Raise(Exception(gen.msg))
    ELSE IF gen.kind = "generator"
    THEN LET audio_segments == gen.segs
         IN  IF Len(audio_segments) = 0
             THEN Raise(HTTPException(500, "No audio generated"))
             ELSE EncodeAndEstimate(
                      input,
                      audio_segments[1].array,
                      IF audio_segments[1].is_tuple
                      THEN audio_segments[1].rate ELSE DefaultRate,
                      encode_ok)
    ELSE IF gen.kind = "tuple"
    THEN EncodeAndEstimate(input, gen.array, gen.rate, encode_ok)
    ELSE IF gen.kind = "ndarray"
    THEN EncodeAndEstimate(input, gen.array, DefaultRate, encode_ok)
    ELSE \* audio_array = None: sf.write (line 97) rejects it
         Raise(Exception("error writing audio"))

Path == "/dev/captioned_speech"

\* lines 60, 126-127: the try/except around the body, and the response the
\* framework sends for the returned value or the raised HTTPException
\* the handler without its except clause: an exception other than
\* HTTPException reaches the framework, which answers with a bare 500
Handler_NoCatch(input, gen, encode_ok, variant) ==
    LET r == TryBody(input, gen, encode_ok)
    IN  IF r.kind = "raise"
        THEN [caught   |-> r.exc,
              response |->
                IF r.exc.type = "HTTPException"
                THEN [path |-> Path, status |-> r.exc.status_code,
                      body |-> [detail |-> r.exc.detail]]
                ELSE [path |-> Path, status |-> 500,
                      body |-> [text |-> "Internal Server Error"]]]
        ELSE [caught   |-> NoException,
              response |-> [path |-> Path, status |-> 200, body |-> r.value]]

\* lines 60, 126-127: the try/except around the body; the exception the
\* except clause caught, and the response the framework sends for the
\* returned value or for the HTTPException raised at line 127
Handler(input, gen, encode_ok, variant) ==
    LET r == TryBody(input, gen, encode_ok)
    IN  IF r.kind = "raise"
        THEN [caught   |-> r.exc,
              response |-> [path |-> Path, status |-> 500,
                            body |-> [detail |-> Str(r.exc, variant)]]]
        ELSE [caught   |-> NoException,
              response |-> [path |-> Path, status |-> 200, body |-> r.value]]

CaptionedSpeech ==
    /\ handled < MaxRequests
    /\ \E input \in ReqTexts, gen \in GenResults, encode_ok \in BOOLEAN :
         LET h == Handler(input, gen, encode_ok, str_variant)
         IN  /\ response' = h.response
             /\ raised' = h.caught
             /\ lastInput' = input
             /\ lastGen' = gen
    /\ handled' = handled + 1
    /\ UNCHANGED <<str_variant, cacheVars, loaderVars, raceVars, estVars>>

\* GET /health, lines 48-50
Health ==
    /\ response' = [path |-> "/health", status |-> 200, body |-> [status |-> "ok"]]
    /\ raised' = NoException
    /\ UNCHANGED <<str_variant, lastInput, lastGen, handled>>
    /\ UNCHANGED <<cacheVars, loaderVars, raceVars, estVars>>

\* GET /v1/models, lines 53-55
Models ==
    /\ response' = [path |-> "/v1/models", status |-> 200,
                    body |-> [data |-> <<[id |-> "kokoro", object |-> "model"]>>]]
    /\ raised' = NoException
    /\ UNCHANGED <<str_variant, lastInput, lastGen, handled>>
    /\ UNCHANGED <<cacheVars, loaderVars, raceVars, estVars>>

\* ------------------------------------------------------------------------
\* Initial states
\* ------------------------------------------------------------------------
NoResponse == [path |-> "", status |-> 0, body |-> [none |-> TRUE]]

InitCache == _pipeline = None /\ _tokenizer = None /\ loadLog = <<>>
InitLoader == rets = <<>>
InitServer ==
    /\ response = NoResponse
    /\ raised = NoException
    /\ lastInput = <<>>
    /\ lastGen = [kind |-> "none"]
    /\ handled = 0
InitRace ==
    /\ pc = [c \in Callers |-> "idle"]
    /\ tmp = [c \in Callers |-> None]
    /\ ret = [c \in Callers |-> None]
InitEstIdle ==
    /\ est_text = <<>>
    /\ est_total_duration = FZero
    /\ est_result = <<>>
    /\ est_done = FALSE

\* ------------------------------------------------------------------------
\* Spec: the running server.  Its handlers are coroutines that never await,
\* so each request runs to completion; nothing in the module calls
\* get_pipeline.
\* ------------------------------------------------------------------------
Init ==
    /\ InitCache /\ InitLoader /\ InitServer /\ InitRace /\ InitEstIdle
    /\ str_variant \in StrVariants

Next == CaptionedSpeech \/ Health \/ Models

Spec == Init /\ [][Next]_vars

\* ------------------------------------------------------------------------
\* SpecLoader: successive calls of get_pipeline()
\* ------------------------------------------------------------------------
InitLoaderSpec ==
    /\ InitCache /\ InitLoader /\ InitServer /\ InitRace /\ InitEstIdle
    /\ str_variant = "with __str__"

NextLoader == GetPipeline

SpecLoader == InitLoaderSpec /\ [][NextLoader]_vars

\* ------------------------------------------------------------------------
\* SpecRace: NumCallers threads each call get_pipeline() once, interleaved
\* between the statements of lines 30-36
\* ------------------------------------------------------------------------
\* line 30: if _pipeline is None
RCheck(c) ==
    /\ pc[c] = "idle"
    /\ pc' = [pc EXCEPT ![c] = IF _pipeline = None THEN "load" ELSE "return"]
    /\ UNCHANGED <<cacheVars, tmp, ret>>

\* line 34, right-hand side: load_model(...) returns a model or raises
RLoad(c) ==
    /\ pc[c] = "load"
    /\ \E ok \in BOOLEAN :
         /\ loadLog' = Append(loadLog, ok)
         /\ IF ok
            THEN /\ tmp' = [tmp EXCEPT ![c] = NewHandle]
                 /\ pc' = [pc EXCEPT ![c] = "store"]
            ELSE /\ pc' = [pc EXCEPT ![c] = "raised"]
                 /\ UNCHANGED tmp
    /\ UNCHANGED <<_pipeline, _tokenizer, ret>>

\* line 34, the assignment to the global
RStore(c) ==
    /\ pc[c] = "store"
    /\ _pipeline' = tmp[c]
    /\ pc' = [pc EXCEPT ![c] = "tokenizer"]
    /\ UNCHANGED <<_tokenizer, loadLog, tmp, ret>>

\* line 35
RTokenizer(c) ==
    /\ pc[c] = "tokenizer"
    /\ _tokenizer' = None
    /\ pc' = [pc EXCEPT ![c] = "return"]
    /\ UNCHANGED <<_pipeline, loadLog, tmp, ret>>

\* get_pipeline returning the caller's local result instead of the global
RReturn_Local(c) ==
    /\ pc[c] = "return"
    /\ ret' = [ret EXCEPT ![c] = tmp[c]]
    /\ pc' = [pc EXCEPT ![c] = "done"]
    /\ UNCHANGED <<cacheVars, tmp>>

\* line 36: return the global as it is now
RReturn(c) ==
    /\ pc[c] = "return"
    /\ ret' = [ret EXCEPT ![c] = _pipeline]
    /\ pc' = [pc EXCEPT ![c] = "done"]
    /\ UNCHANGED <<cacheVars, tmp>>

NextRace ==
    \E c \in Callers :
        /\ (RCheck(c) \/ RLoad(c) \/ RStore(c) \/ RTokenizer(c) \/ RReturn(c))
        /\ UNCHANGED <<loaderVars, serverVars, estVars>>

SpecRace == InitLoaderSpec /\ [][NextRace]_vars

\* ------------------------------------------------------------------------
\* SpecEst: one call of _estimate_word_timestamps on enumerated arguments.
\* total_duration is what the handler passes: len(audio_array) / sample_rate
\* ------------------------------------------------------------------------
HelloWorld == <<"h", "e", "l", "l", "o", " ", "w", "o", "r", "l", "d">>
Texts == SeqsUpTo(Chars, MaxLen) \cup {HelloWorld}
SampleCounts == {0, 60, 84, 132, 48000}
Durations == {FDivInt(n, DefaultRate) : n \in SampleCounts}

InitEstSpec ==
    /\ InitCache /\ InitLoader /\ InitServer /\ InitRace
    /\ str_variant = "with __str__"
    /\ est_text \in Texts
    /\ est_total_duration \in Durations
    /\ est_result = <<>>
    /\ est_done = FALSE

Estimate ==
    /\ ~est_done
    /\ est_result' = EstimateWordTimestamps(est_text, est_total_duration)
    /\ est_done' = TRUE
    /\ UNCHANGED <<est_text, est_total_duration>>
    /\ UNCHANGED <<cacheVars, loaderVars, serverVars, raceVars>>

NextEst == Estimate

SpecEst == InitEstSpec /\ [][NextEst]_vars

\* ------------------------------------------------------------------------
\* Properties
\* ------------------------------------------------------------------------
IsCaptioned == handled > 0 /\ response.path = Path

\* C1: when generation yields zero segments, the request fails with HTTP
\* 500 and the detail the client receives is exactly "No audio generated".
C1_EmptyOutputDetail ==
    (IsCaptioned /\ lastGen.kind = "generator" /\ Len(lastGen.segs) = 0)
        => (response.status = 500 /\ response.body.detail = "No audio generated")

RECURSIVE ConcatArrays(_)
ConcatArrays(segs) ==
    IF Len(segs) = 0 THEN <<>>
    ELSE segs[1].array \o ConcatArrays(SubSeq(segs, 2, Len(segs)))

\* C2: for every non-empty sequence of yielded segments, the buffer that is
\* encoded is the concatenation of all segment buffers in yield order.
C2_EncodesConcatenation ==
    (IsCaptioned /\ response.status = 200
        /\ lastGen.kind = "generator" /\ Len(lastGen.segs) > 0)
        => response.body.audio.b64.frames = ConcatArrays(lastGen.segs)

\* C3: every handled request ends either in a 200 carrying both "audio" and
\* "timestamps", or in a 500 whose detail is str() of the exception raised
\* inside the handler; nothing escapes the handler and no partial body is
\* sent.
C3_TwoOutcomes ==
    IsCaptioned =>
        \/ /\ response.status = 200
           /\ raised = NoException
           /\ DOMAIN response.body = {"audio", "timestamps"}
        \/ /\ response.status = 500
           /\ raised # NoException
           /\ DOMAIN response.body = {"detail"}
           /\ response.body.detail = Str(raised, str_variant)

C3_Witness ==
    /\ IsCaptioned
    /\ response.status = 500
    /\ raised = Exception("error writing audio")
    /\ lastGen.kind = "generator"

\* C4: in a sequence of get_pipeline() calls whose first load succeeds,
\* every call returns the handle the first call returned and load_model is
\* called exactly once.
C4_LoaderIdempotent ==
    (loadLog # <<>> /\ loadLog[1])
        => /\ Len(loadLog) = 1
           /\ \A i \in 1..Len(rets) : rets[i] # None /\ rets[i] = rets[1]

C4_Witness == Len(rets) >= 3 /\ loadLog = <<TRUE>>

\* C5: once a captioned_speech request has been handled, the process-wide
\* model cache is populated.
C5_CachePopulatedByRequest == handled > 0 => _pipeline # None

\* ------------------------------------------------------------------------
\* whitespace-delimited words, stated on the positions of the text
WordStarts(text) ==
    {i \in 1..Len(text) :
        text[i] \notin Whitespace /\ (i = 1 \/ text[i - 1] \in Whitespace)}

WordEnd(text, i) ==
    CHOOSE j \in i..Len(text) :
        /\ \A k \in i..j : text[k] \notin Whitespace
        /\ (j = Len(text) \/ text[j + 1] \in Whitespace)

NthStart(text, n) ==
    CHOOSE i \in WordStarts(text) :
        Cardinality({k \in WordStarts(text) : k < i}) = n - 1

\* C6: the result has exactly one entry per whitespace-delimited word of the
\* text, in order, each carrying its word unchanged; it is empty for empty
\* and for all-whitespace text.
C6_OneEntryPerWord ==
    est_done =>
        /\ Len(est_result) = Cardinality(WordStarts(est_text))
        /\ \A n \in 1..Len(est_result) :
              LET i == NthStart(est_text, n)
              IN  est_result[n].word = SubSeq(est_text, i, WordEnd(est_text, i))

C6_Witness ==
    /\ est_done
    /\ Len(est_result) = 2
    /\ est_result[1].word = <<"a">>
    /\ est_result[2].word = <<"b", "b">>
    /\ Len(est_text) = 5

Last(q) == q[Len(q)]
Abs(x) == IF x < 0 THEN -x ELSE x
TwoSeconds == FDivInt(48000, DefaultRate)

\* C7 as stated: for a non-empty word sequence, the first start_time is 0.0
\* and the last end_time equals total_duration rounded to 3 decimals.
C7_SpanExact ==
    (est_done /\ est_result # <<>>)
        => /\ est_result[1].start_time = 0
           /\ Last(est_result).end_time = Round3(est_total_duration)

\* C7 as amended: for a non-empty word sequence, the first start_time is 0.0
\* and the last end_time, the rounding of the float sum of the per-word
\* allotments, is within 0.001 of total_duration rounded to 3 decimals;
\* "hello world" with 2.0 s gives hello 0.0-1.0 and world 1.0-2.0.
C7_SpanWithinRounding ==
    (est_done /\ est_result # <<>>)
        => /\ est_result[1].start_time = 0
           /\ Abs(Last(est_result).end_time - Round3(est_total_duration)) <= 1
           /\ (est_text = HelloWorld /\ est_total_duration = TwoSeconds)
                 => /\ Len(est_result) = 2
                    /\ est_result[1].start_time = 0
                    /\ est_result[1].end_time = 1000
                    /\ est_result[2].start_time = 1000
                    /\ est_result[2].end_time = 2000

C7_Witness ==
    /\ est_done
    /\ Len(est_result) = 2
    /\ Round3(est_total_duration) = 3
    /\ Last(est_result).end_time = 2

\* C8: every entry has end_time >= start_time >= 0, and start_time does not
\* decrease from an entry to the next.
C8_NonNegativeMonotone ==
    est_done =>
        /\ \A i \in 1..Len(est_result) :
              /\ est_result[i].start_time >= 0
              /\ est_result[i].end_time >= est_result[i].start_time
        /\ \A i \in 1..(Len(est_result) - 1) :
              est_result[i].start_time <= est_result[i + 1].start_time

C8_Witness ==
    /\ est_done
    /\ Len(est_result) = 3
    /\ est_result[2].start_time > 0
    /\ est_result[3].start_time > est_result[2].start_time

\* C9: when callers race on the empty cache, under every interleaving each
\* caller that returns got a model, the cache is not empty once any call has
\* returned, and load_model runs at most once per caller (at most twice for
\* two callers).
C9_RaceConverges ==
    /\ \A c \in Callers : pc[c] = "done" => ret[c] # None
    /\ (\E c \in Callers : pc[c] = "done") => _pipeline # None
    /\ Len(loadLog) <= NumCallers

C9_Witness ==
    /\ \A c \in Callers : pc[c] = "done"
    /\ Len(loadLog) = NumCallers
    /\ \A i \in 1..Len(loadLog) : loadLog[i]

\* C10: adjacent entries are exactly contiguous after rounding: the end_time
\* of an entry equals the start_time of the next.
C10_Contiguous ==
    est_done =>
        \A i \in 1..(Len(est_result) - 1) :
            est_result[i].end_time = est_result[i + 1].start_time

C10_Witness ==
    /\ est_done
    /\ Len(est_result) = 3
    /\ est_result[1].end_time = 2
    /\ est_result[2].end_time = 4

====
